---- MODULE Spec2Model ----
(***************************************************************************)
(* A model of CircuitPython_Homie: the identifier validator, the property  *)
(* classes of circuitpython_homie/__init__.py and recipes.py, and the      *)
(* HomieDevice controller talking to an MQTT client.                       *)
(*                                                                         *)
(* Python strings that the code inspects character by character (ids,     *)
(* names, colour strings, formats, boolean descriptions) are sequences of  *)
(* one-character strings.  Strings the code only compares or concatenates  *)
(* (topics, device states, payloads on the wire) are TLA+ strings.         *)
(* Python values are tagged records [t |-> type, v |-> value].             *)
(***************************************************************************)
EXTENDS Integers, Sequences, FiniteSets, TLC

(* ------------------------------------------------------------------ *)
(* Python values and the str methods the code uses                     *)
(* ------------------------------------------------------------------ *)

None == [t |-> "none", v |-> 0]
PyStr(s) == [t |-> "str", v |-> s]
PyInt(n) == [t |-> "int", v |-> n]
PyBool(b) == [t |-> "bool", v |-> b]
PyTuple(q) == [t |-> "tuple", v |-> q]
\* time.struct_time: <<tm_year, tm_mon, tm_mday, tm_hour, tm_min, tm_sec>>
PyTime(q) == [t |-> "time", v |-> q]

SameValue(a, b) == a.t = b.t /\ a.v = b.v

DigitChars == <<"0", "1", "2", "3", "4", "5", "6", "7", "8", "9">>
UpperChars == <<"A", "B", "C", "D", "E", "F", "G", "H", "I", "J", "K", "L", "M",
                "N", "O", "P", "Q", "R", "S", "T", "U", "V", "W", "X", "Y", "Z">>
LowerChars == <<"a", "b", "c", "d", "e", "f", "g", "h", "i", "j", "k", "l", "m",
                "n", "o", "p", "q", "r", "s", "t", "u", "v", "w", "x", "y", "z">>

Range(q) == {q[i] : i \in DOMAIN q}

\* the characters of s as one TLA+ string
RECURSIVE Flat(_)
Flat(s) == IF s = <<>> THEN "" ELSE Head(s) \o Flat(Tail(s))

\* str.lower()
LowerChar(c) ==
    IF \E i \in DOMAIN UpperChars : UpperChars[i] = c
    THEN LowerChars[CHOOSE i \in DOMAIN UpperChars : UpperChars[i] = c]
    ELSE c
lower(s) == [i \in DOMAIN s |-> LowerChar(s[i])]

\* str.rstrip(chars), str.lstrip(chars)
RECURSIVE rstrip(_, _)
rstrip(s, chars) ==
    IF s # <<>> /\ s[Len(s)] \in chars THEN rstrip(SubSeq(s, 1, Len(s) - 1), chars) ELSE s
RECURSIVE lstrip(_, _)
lstrip(s, chars) ==
    IF s # <<>> /\ Head(s) \in chars THEN lstrip(Tail(s), chars) ELSE s

\* str.split(sep) for a one-character separator: always at least one element
RECURSIVE split(_, _)
split(s, sep) ==
    IF \E i \in DOMAIN s : s[i] = sep
    THEN LET i == CHOOSE k \in DOMAIN s : s[k] = sep /\ \A j \in 1..(k - 1) : s[j] # sep
         IN  <<SubSeq(s, 1, i - 1)>> \o split(SubSeq(s, i + 1, Len(s)), sep)
    ELSE <<s>>

\* str.isdigit(): non-empty and every character a digit
isdigit(s) == s # <<>> /\ \A i \in DOMAIN s : s[i] \in Range(DigitChars)

DigitValue(c) == (CHOOSE i \in DOMAIN DigitChars : DigitChars[i] = c) - 1

\* int(s) of a string of digits
RECURSIVE DigitsToInt(_)
DigitsToInt(s) ==
    IF s = <<>> THEN 0 ELSE 10 * DigitsToInt(SubSeq(s, 1, Len(s) - 1)) + DigitValue(s[Len(s)])

\* int(s): an optional sign and digits; anything else raises ValueError
IsIntLiteral(s) ==
    \/ isdigit(s)
    \/ s # <<>> /\ Head(s) \in {"-", "+"} /\ isdigit(Tail(s))
int(s) ==
    IF Head(s) = "-" THEN 0 - DigitsToInt(Tail(s))
    ELSE IF Head(s) = "+" THEN DigitsToInt(Tail(s))
    ELSE DigitsToInt(s)

\* str(n) of an integer
RECURSIVE NatToDigits(_)
NatToDigits(n) ==
    IF n < 10 THEN <<DigitChars[n + 1]>> ELSE NatToDigits(n \div 10) \o <<DigitChars[(n % 10) + 1]>>
IntToStr(n) == IF n < 0 THEN <<"-">> \o NatToDigits(0 - n) ELSE NatToDigits(n)

\* "{:0w}".format(n) for n >= 0
RECURSIVE ZeroPad(_, _)
ZeroPad(s, w) == IF Len(s) >= w THEN s ELSE ZeroPad(<<"0">> \o s, w)

\* str(x) for the values that reach it
str(x) ==
    CASE x.t = "str" -> x.v
      [] x.t = "int" -> IntToStr(x.v)
      [] x.t = "bool" -> IF x.v THEN <<"T", "r", "u", "e">> ELSE <<"F", "a", "l", "s", "e">>
      [] OTHER -> <<"N", "o", "n", "e">>

\* sep.join(parts) on TLA+ strings
RECURSIVE join(_, _)
join(sep, parts) ==
    IF parts = <<>> THEN ""
    ELSE IF Len(parts) = 1 THEN parts[1]
    ELSE parts[1] \o sep \o join(sep, Tail(parts))

(* ------------------------------------------------------------------ *)
(* validate_id                                                         *)
(* ------------------------------------------------------------------ *)

IdChars == Range(LowerChars) \cup Range(DigitChars) \cup {"-"}

\* re.match("^[a-z0-9\\-]+$", s) is not None; $ also matches before a final newline
IdPatternMatches(s) ==
    \/ s # <<>> /\ \A i \in DOMAIN s : s[i] \in IdChars
    \/ /\ Len(s) >= 2
       /\ s[Len(s)] = "\n"
       /\ \A i \in 1..(Len(s) - 1) : s[i] \in IdChars

\* validate_id stripping only a leading "$", not the leading hyphens
validate_id_DollarOnly(_id) ==
    LET n == lower(lstrip(rstrip(_id, {"-"}), {"$"}))
    IN  IF IdPatternMatches(n)
        THEN [raised |-> "none", id |-> n]
        ELSE [raised |-> "ValueError", id |-> <<>>]

\* [raised, id]: the normalised id, or a ValueError
validate_id(_id) ==
    LET n == lower(lstrip(rstrip(_id, {"-"}), {"$", "-"}))
    IN  IF IdPatternMatches(n)
        THEN [raised |-> "none", id |-> n]
        ELSE [raised |-> "ValueError", id |-> <<>>]

(* ------------------------------------------------------------------ *)
(* HomieProperty and the recipes                                       *)
(* ------------------------------------------------------------------ *)

\* keyword arguments (**extra_attributes): a function from names to values
NoAttributes == [k \in {} |-> None]
pop(extra, key, default) == IF key \in DOMAIN extra THEN extra[key] ELSE default
Without(extra, keys) == [k \in (DOMAIN extra) \ keys |-> extra[k]]

callable(x) == x.t = "function"

\* HomieProperty.__init__; property_id <<>> stands for None (or "")
HomieProperty_init(cls, name, datatype, property_id, init_value, extra_attributes) ==
    [cls |-> cls,
     name |-> name,
     datatype |-> lower(datatype),
     _value |-> init_value,
     property_id |-> validate_id(IF property_id = <<>> THEN name ELSE property_id).id,
     attrs |-> extra_attributes,
     _callback |-> None]

\* _PropertyColor.__init__
PropertyColor_init(cls, name, property_id, extra_attributes) ==
    HomieProperty_init(cls, name, <<"c", "o", "l", "o", "r">>, property_id,
        pop(extra_attributes, "init_value", PyStr(<<"0", ",", "0", ",", "0">>)),
        ("settable" :> pop(extra_attributes, "settable", PyBool(TRUE)))
            @@ Without(extra_attributes, {"datatype", "init_value", "settable"}))

PropertyRGB_init(name, property_id, extra_attributes) ==
    PropertyColor_init("PropertyRGB", name, property_id,
        ("format" :> PyStr(<<"r", "g", "b">>)) @@ Without(extra_attributes, {"format"}))

PropertyHSV_init(name, property_id, extra_attributes) ==
    PropertyColor_init("PropertyHSV", name, property_id,
        ("format" :> pop(extra_attributes, "format", PyStr(<<"h", "s", "v">>)))
            @@ Without(extra_attributes, {"format"}))

PropertyPercent_init(name, datatype, property_id, init_value, extra_attributes) ==
    HomieProperty_init("PropertyPercent", name, datatype, property_id, init_value,
        ("format" :> pop(extra_attributes, "format", PyStr(<<"0", ":", "1", "0", "0">>)))
            @@ Without(extra_attributes, {"format"}))

PropertyDateTime_init(name, property_id, init_value, extra_attributes) ==
    HomieProperty_init("PropertyDateTime", name, <<"d", "a", "t", "e", "t", "i", "m", "e">>,
        property_id, init_value, Without(extra_attributes, {"datatype"}))

PropertyBool_init(name, property_id, init_value, extra_attributes) ==
    HomieProperty_init("PropertyBool", name, <<"b", "o", "o", "l", "e", "a", "n">>,
        property_id, init_value,
        ("settable" :> pop(extra_attributes, "settable", PyBool(TRUE)))
            @@ Without(extra_attributes, {"datatype", "settable"}))

\* HomieProperty.__call__
Value(prop) == prop._value

\* HomieProperty.is_settable
is_settable(prop) ==
    IF "settable" \in DOMAIN prop.attrs THEN prop.attrs["settable"].v ELSE FALSE

\* the callback getter: [raised, ret]
callback_get(prop) ==
    IF ~is_settable(prop) THEN [raised |-> "none", ret |-> None]
    ELSE IF callable(prop._callback) THEN [raised |-> "none", ret |-> prop._callback]
    ELSE [raised |-> "NotImplementedError", ret |-> None]

\* the callback getter of properties.py: [raised, ret]
properties_callback_get(prop) ==
    IF is_settable(prop) /\ callable(prop._callback)
    THEN [raised |-> "none", ret |-> prop._callback]
    ELSE [raised |-> "NotImplementedError", ret |-> None]

\* the callback setter storing whatever it is given
callback_set_Unchecked(prop, method) ==
    [raised |-> "none", prop |-> [prop EXCEPT !._callback = method]]

\* the callback setter: [raised, prop]
callback_set(prop, method) ==
    IF ~callable(method) THEN [raised |-> "ValueError", prop |-> prop]
    ELSE [raised |-> "none", prop |-> [prop EXCEPT !._callback = method]]

\* The result of a set(): the exception raised ("none" when it returns), the
\* property afterwards, and the value returned.
Returned(prop, ret) == [raised |-> "none", prop |-> prop, ret |-> ret]
Raised(exc, prop) == [raised |-> exc, prop |-> prop, ret |-> None]

\* HomieProperty.set
HomieProperty_set(prop, value) == Returned([prop EXCEPT !._value = value], value)

\* _PropertyColor.validate: [raised, ret]
PropertyColor_validate(color) ==
    IF color.t # "str" THEN [raised |-> "AttributeError", ret |-> None]
    ELSE LET elements == split(color.v, ",")
         IN  IF Len(elements) # 3 THEN [raised |-> "AssertionError", ret |-> None]
             ELSE IF \E i \in 1..3 : ~isdigit(elements[i])
                  THEN [raised |-> "AssertionError", ret |-> None]
                  ELSE [raised |-> "none",
                        ret |-> PyTuple([i \in 1..3 |-> DigitsToInt(elements[i])])]

\* PropertyRGB.validate
PropertyRGB_validate(color) ==
    LET elements == PropertyColor_validate(color)
    IN  IF elements.raised # "none" THEN elements
        ELSE IF \A i \in 1..3 : 0 <= elements.ret.v[i] /\ elements.ret.v[i] <= 255
             THEN elements
             ELSE [raised |-> "AssertionError", ret |-> None]

\* PropertyHSV.validate with the range of an RGB component for all three
PropertyHSV_validate_AsRGB(color) ==
    LET elements == PropertyColor_validate(color)
    IN  IF elements.raised # "none" THEN elements
        ELSE IF \A i \in 1..3 : 0 <= elements.ret.v[i] /\ elements.ret.v[i] <= 255
             THEN elements
             ELSE [raised |-> "AssertionError", ret |-> None]

\* PropertyHSV.validate
PropertyHSV_validate(color) ==
    LET elements == PropertyColor_validate(color)
    IN  IF elements.raised # "none" THEN elements
        ELSE IF /\ 0 <= elements.ret.v[1] /\ elements.ret.v[1] <= 360
                /\ \A i \in 2..3 : 0 <= elements.ret.v[i] /\ elements.ret.v[i] <= 100
             THEN elements
             ELSE [raised |-> "AssertionError", ret |-> None]

\* _PropertyColor.set: validate(super().set(value))
PropertyColor_set(prop, value) ==
    LET stored == HomieProperty_set(prop, value)
        checked == IF prop.cls = "PropertyRGB" THEN PropertyRGB_validate(stored.ret)
                   ELSE PropertyHSV_validate(stored.ret)
    IN  IF checked.raised # "none" THEN Raised(checked.raised, stored.prop)
        ELSE Returned(stored.prop, checked.ret)

\* PropertyPercent.validate taking the two bounds of the format in either order
PropertyPercent_validate_EitherOrder(prop, value) ==
    LET fmt == split(prop.attrs["format"].v, ":")
    IN  IF Len(fmt) # 2 THEN [raised |-> "AssertionError", ret |-> None]
        ELSE IF ~IsIntLiteral(fmt[1]) \/ ~IsIntLiteral(fmt[2])
             THEN [raised |-> "ValueError", ret |-> None]
        ELSE IF value.t # "int" THEN [raised |-> "TypeError", ret |-> None]
        ELSE LET low == int(fmt[1])
                 high == int(fmt[2])
             IN  IF \/ low <= value.v /\ value.v <= high
                    \/ high <= value.v /\ value.v <= low
                 THEN [raised |-> "none", ret |-> value]
                 ELSE [raised |-> "AssertionError", ret |-> None]

\* PropertyPercent.validate: [raised, ret]
PropertyPercent_validate(prop, value) ==
    LET fmt == split(prop.attrs["format"].v, ":")
    IN  IF Len(fmt) # 2 THEN [raised |-> "AssertionError", ret |-> None]
        ELSE IF ~IsIntLiteral(fmt[1]) \/ ~IsIntLiteral(fmt[2])
             THEN [raised |-> "ValueError", ret |-> None]
        ELSE IF value.t # "int" THEN [raised |-> "TypeError", ret |-> None]
        ELSE LET low == int(fmt[1])
                 high == int(fmt[2])
             IN  IF low <= value.v /\ value.v <= high
                 THEN [raised |-> "none", ret |-> value]
                 ELSE [raised |-> "AssertionError", ret |-> None]

\* PropertyPercent.set: validate(super().set(value))
PropertyPercent_set(prop, value) ==
    LET stored == HomieProperty_set(prop, value)
        checked == PropertyPercent_validate(stored.prop, stored.ret)
    IN  IF checked.raised # "none" THEN Raised(checked.raised, stored.prop)
        ELSE Returned(stored.prop, checked.ret)

\* PropertyDateTime.convert: YYYY-MM-DDTHH:MM:SS
convert(value) ==
    ZeroPad(IntToStr(value.v[1]), 4) \o <<"-">> \o ZeroPad(IntToStr(value.v[2]), 2)
        \o <<"-">> \o ZeroPad(IntToStr(value.v[3]), 2) \o <<"T">>
        \o ZeroPad(IntToStr(value.v[4]), 2) \o <<":">> \o ZeroPad(IntToStr(value.v[5]), 2)
        \o <<":">> \o ZeroPad(IntToStr(value.v[6]), 2)

\* PropertyDateTime.set
PropertyDateTime_set(prop, value) ==
    IF value.t = "time" THEN HomieProperty_set(prop, PyStr(convert(value)))
    ELSE HomieProperty_set(prop, value)

\* PropertyBool.validate comparing the string as it is given, without lower()
PropertyBool_validate_CaseSensitive(value) ==
    IF value.t = "bool" THEN [raised |-> "none", ret |-> value]
    ELSE IF value.t # "str" THEN [raised |-> "AttributeError", ret |-> None]
    ELSE IF value.v \in {<<"t", "r", "u", "e">>, <<"f", "a", "l", "s", "e">>}
         THEN [raised |-> "none", ret |-> PyBool(value.v = <<"t", "r", "u", "e">>)]
         ELSE [raised |-> "AssertionError", ret |-> None]

\* PropertyBool.validate: [raised, ret]
PropertyBool_validate(value) ==
    IF value.t = "bool" THEN [raised |-> "none", ret |-> value]
    ELSE IF value.t # "str" THEN [raised |-> "AttributeError", ret |-> None]
    ELSE IF lower(value.v) \in {<<"t", "r", "u", "e">>, <<"f", "a", "l", "s", "e">>}
         THEN [raised |-> "none", ret |-> PyBool(lower(value.v) = <<"t", "r", "u", "e">>)]
         ELSE [raised |-> "AssertionError", ret |-> None]

\* PropertyBool.set: validate first, then store the canonical string
PropertyBool_set(prop, value) ==
    LET actual_value == PropertyBool_validate(value)
    IN  IF actual_value.raised # "none" THEN Raised(actual_value.raised, prop)
        ELSE Returned(
                 HomieProperty_set(prop,
                     PyStr(IF actual_value.ret.v THEN <<"t", "r", "u", "e">>
                           ELSE <<"f", "a", "l", "s", "e">>)).prop,
                 actual_value.ret)

\* prop.set(value), by the class of prop
set(prop, value) ==
    CASE prop.cls \in {"PropertyRGB", "PropertyHSV"} -> PropertyColor_set(prop, value)
      [] prop.cls = "PropertyPercent" -> PropertyPercent_set(prop, value)
      [] prop.cls = "PropertyDateTime" -> PropertyDateTime_set(prop, value)
      [] prop.cls = "PropertyBool" -> PropertyBool_set(prop, value)
      [] OTHER -> HomieProperty_set(prop, value)

(* ------------------------------------------------------------------ *)
(* HomieNode                                                           *)
(* ------------------------------------------------------------------ *)

\* HomieNode.__init__; node_id <<>> stands for None (or "")
HomieNode_init(name, node_type, node_id) ==
    [name |-> name,
     type |-> node_type,
     node_id |-> validate_id(IF node_id = <<>> THEN name ELSE node_id).id,
     properties |-> <<>>]

(* ------------------------------------------------------------------ *)
(* What the caller builds: property objects, nodes, inputs             *)
(* ------------------------------------------------------------------ *)

\* the most properties the caller attaches to the nodes of the device, in all
MaxAttached == 3

\* The caller constructs two property objects, p1 and p2, of one of these
\* pairs of classes, as the examples do before attaching them.
PropIds == {"p1", "p2"}
Kits ==
    { [p1 |-> PropertyRGB_init(<<"C", "o", "l", "o", "r">>, <<>>, NoAttributes),
       p2 |-> HomieProperty_init("HomieProperty", <<"l", "u", "x">>,
                  <<"s", "t", "r", "i", "n", "g">>, <<>>, PyStr(<<>>), NoAttributes)],
      [p1 |-> PropertyBool_init(<<"s", "w", "i", "t", "c", "h">>, <<>>,
                  PyStr(<<"f", "a", "l", "s", "e">>), NoAttributes),
       p2 |-> PropertyPercent_init(<<"L", "e", "v", "e", "l">>,
                  <<"i", "n", "t", "e", "g", "e", "r">>, <<"l", "v", "l">>, PyInt(0),
                  NoAttributes)],
      [p1 |-> PropertyHSV_init(<<"h", "s", "v">>, <<>>, NoAttributes),
       p2 |-> PropertyDateTime_init(<<"t", "i", "m", "e">>, <<>>,
                  PyStr(<<"2", "0", "0", "0", "-", "0", "1", "-", "0", "1", "T",
                          "0", "0", ":", "0", "0", ":", "0", "0">>),
                  "settable" :> PyBool(FALSE))] }

\* the nodes the caller constructs, in the order it attaches them
NodePool ==
    << HomieNode_init(<<"L", "i", "g", "h", "t">>, "RGB DotStar", <<>>),
       HomieNode_init(<<"s", "e", "n", "s", "o", "r">>, "sensor", <<"s", "-", "1">>) >>

\* the values the caller passes to set() and set_property(), by class:
\* at least one that passes validation and, where the class validates, one that fails
Inputs(cls) ==
    CASE cls = "PropertyRGB" ->
            { PyStr(<<"2", "5", "5", ",", "1", "2", "7", ",", "0">>),
              PyStr(<<"3", "5", "5", ",", "0", ",", "0">>) }
      [] cls = "PropertyHSV" ->
            { PyStr(<<"2", "5", "5", ",", "8", "5", ",", "0">>),
              PyStr(<<"7", "2", "0", ",", "0", ",", "0">>) }
      [] cls = "PropertyBool" -> { PyBool(TRUE), PyStr(<<"0">>) }
      [] cls = "PropertyPercent" -> { PyInt(50), PyInt(101) }
      [] cls = "PropertyDateTime" -> { PyTime(<<0, 1, 1, 0, 0, 0>>) }
      [] OTHER -> { PyStr(<<"4", "2">>) }

Classes ==
    {"HomieProperty", "PropertyRGB", "PropertyHSV", "PropertyPercent", "PropertyDateTime",
     "PropertyBool"}
AllInputs == UNION {Inputs(cls) : cls \in Classes}

\* the raw device ids the caller passes to HomieDevice()
DeviceIds ==
    { <<"$", "M", "y", "-", "D", "e", "v", "-">>,
      <<"m", "y", "-", "d", "e", "v">>,
      <<"m", "y", " ", "d", "e", "v">>,
      <<"-">> }

DEVICE_STATES == <<"init", "ready", "disconnected", "sleeping", "alert", "lost">>

\* the states the caller passes to set_state()
StateInputs == Range(DEVICE_STATES) \cup {"READY", "offline"}

\* The property objects the caller constructs to use them on their own, as the
\* tests do: p1 and p2, of one of these pairs.
PropKits ==
    { [p1 |-> PropertyBool_init(<<"s", "w", "i", "t", "c", "h">>, <<>>,
                  PyStr(<<"f", "a", "l", "s", "e">>), NoAttributes),
       p2 |-> HomieProperty_init("HomieProperty", <<"l", "u", "x">>,
                  <<"s", "t", "r", "i", "n", "g">>, <<>>, PyStr(<<>>), NoAttributes)],
      [p1 |-> PropertyRGB_init(<<"c", "o", "l", "o", "r">>, <<>>, NoAttributes),
       p2 |-> PropertyHSV_init(<<"c", "o", "l", "o", "r">>, <<>>, NoAttributes)],
      [p1 |-> PropertyPercent_init(<<"n", "u", "m", "b", "e", "r">>,
                  <<"i", "n", "t", "e", "g", "e", "r">>, <<>>, PyInt(0), NoAttributes),
       p2 |-> PropertyPercent_init(<<"n", "u", "m", "b", "e", "r">>,
                  <<"i", "n", "t", "e", "g", "e", "r">>, <<>>, PyInt(0),
                  "format" :> PyStr(<<"5", "0", ":", "-", "1">>))],
      [p1 |-> PropertyPercent_init(<<"n", "u", "m", "b", "e", "r">>,
                  <<"i", "n", "t", "e", "g", "e", "r">>, <<>>, PyInt(0),
                  ("format" :> PyStr(<<"0", ":", "6", "0">>))
                      @@ ("unit" :> PyStr(<<"p", "c", "t">>))),
       p2 |-> HomieProperty_init("HomieProperty", <<"t", "e", "m", "p">>,
                  <<"i", "n", "t", "e", "g", "e", "r">>, <<>>, PyStr(<<"0">>),
                  "settable" :> PyBool(FALSE))],
      [p1 |-> PropertyBool_init(<<"s", "w", "i", "t", "c", "h">>, <<>>,
                  PyStr(<<"f", "a", "l", "s", "e">>), "settable" :> PyBool(FALSE)),
       p2 |-> HomieProperty_init("HomieProperty", <<"t", "e", "x", "t">>,
                  <<"s", "t", "r", "i", "n", "g">>, <<>>, PyStr(<<>>),
                  "settable" :> PyBool(TRUE))] }

\* the values the caller passes to set() on such a property, by class
SetInputs(cls) ==
    CASE cls = "PropertyBool" ->
            { PyBool(TRUE), PyBool(FALSE),
              PyStr(<<"t", "r", "u", "e">>), PyStr(<<"f", "a", "l", "s", "e">>),
              PyStr(<<"T", "r", "u", "e">>), PyStr(<<"F", "A", "L", "S", "E">>),
              PyStr(<<"0">>), PyStr(<<"y", "e", "s">>), PyStr(<<>>) }
      [] cls = "PropertyRGB" ->
            { PyStr(<<"2", "5", "5", ",", "1", "2", "7", ",", "0">>),
              PyStr(<<"0", ",", "0", ",", "2", "5", "5">>),
              PyStr(<<"3", "5", "5", ",", "0", ",", "0">>),
              PyStr(<<"0", ",", "2", "5", "6", ",", "0">>),
              PyStr(<<"-", "1", ",", "0", ",", "0">>),
              PyStr(<<"a", ",", "0", ",", "0">>),
              PyStr(<<"1", ",", ",", "2">>),
              PyStr(<<"1", ",", "2">>),
              PyStr(<<"1", ",", "2", ",", "3", ",", "4">>) }
      [] cls = "PropertyHSV" ->
            { PyStr(<<"2", "5", "5", ",", "8", "5", ",", "0">>),
              PyStr(<<"3", "6", "0", ",", "1", "0", "0", ",", "1", "0", "0">>),
              PyStr(<<"7", "2", "0", ",", "0", ",", "0">>),
              PyStr(<<"3", "6", "1", ",", "0", ",", "0">>),
              PyStr(<<"0", ",", "1", "0", "1", ",", "0">>),
              PyStr(<<"0", ",", "0", ",", "1", "0", "1">>),
              PyStr(<<"0", ",", "-", "1", ",", "0">>),
              PyStr(<<"1", ",", "2">>),
              PyStr(<<"1", " ", "2", " ", "3">>) }
      [] cls = "PropertyPercent" ->
            { PyInt(0 - 2), PyInt(0 - 1), PyInt(0), PyInt(1), PyInt(50), PyInt(60), PyInt(61),
              PyInt(100), PyInt(101) }
      [] cls = "PropertyDateTime" -> { PyTime(<<0, 1, 1, 0, 0, 0>>) }
      [] OTHER -> { PyStr(<<"4", "2">>) }

AllSetInputs == UNION {SetInputs(cls) : cls \in Classes}

\* what the caller assigns to prop.callback: a function, and two things that are
\* not callable
Methods == { [t |-> "function", v |-> "change_color"], None, PyStr(<<"n", "o">>) }

\* the longest string the caller passes to validate_id() directly
MaxIdLen == 3

\* the characters of those strings, and the strings
IdAlphabet == {"a", "Z", "0", "-", "$", "_", "\n"}
IdInputs == UNION {[1..k -> IdAlphabet] : k \in 0..MaxIdLen}

(* ------------------------------------------------------------------ *)
(* The MQTT client as the device sees it: the calls made on it         *)
(* ------------------------------------------------------------------ *)

\* retain and qos are "default" when the call does not pass them
Publish(topic, payload, retain, qos) ==
    [call |-> "publish", topic |-> topic, payload |-> payload, retain |-> retain, qos |-> qos]
Subscribe(topic, qos) == [call |-> "subscribe", topic |-> topic, qos |-> qos]
AddTopicCallback(topic, method) ==
    [call |-> "add_topic_callback", topic |-> topic, method |-> method]
WillSet(topic, payload) == [call |-> "will_set", topic |-> topic, payload |-> payload]
Connect(keep_alive) == [call |-> "connect", keep_alive |-> keep_alive]
Disconnect == [call |-> "disconnect"]

(* ------------------------------------------------------------------ *)
(* HomieDevice                                                         *)
(* ------------------------------------------------------------------ *)

VARIABLES
    pc,                \* where the caller is: "new", "idle", "set_property", "dead"
    connected,         \* what client.is_connected() reports
    will,              \* the last will armed on the client, <<>> when none
    topic,             \* HomieDevice.topic
    nodes,             \* HomieDevice.nodes
    props,             \* the property objects, by identity
    enable_broadcast,  \* HomieDevice.enable_broadcast
    call,              \* the latest step of the caller: the call made, its arguments
                       \* and what client.is_connected() returned to it
    log,               \* the client calls made by that step, in order
    raised             \* the exception that step ended with, "none" if it returned

vars == <<pc, connected, will, topic, nodes, props, enable_broadcast, call, log, raised>>

base_topic == "homie"
homie == "4.0.0"
name == "my device name"
extensions == "null.dummy:none[3.x;4.x]"
implementation == "circuitpython on " \o "Linux"
firmware == << <<"name", "circuitpython-homie">>, <<"version", "0.0.0+auto.0">> >>

Init ==
    /\ pc = "new"
    /\ connected \in BOOLEAN
    /\ will = <<>>
    /\ topic = ""
    /\ nodes = <<>>
    /\ props \in Kits
    /\ enable_broadcast = TRUE
    /\ call = [op |-> "none"]
    /\ log = <<>>
    /\ raised = "none"

\* HomieDevice.__init__ opening the connection before the last will is armed
Construct_ConnectFirst(device_id, mmqtt_exception) ==
    /\ pc = "new"
    /\ call' = [op |-> "__init__", device_id |-> device_id, is_connected |-> connected,
                 mmqtt_exception |-> mmqtt_exception]
    /\ LET id == validate_id(device_id)
           t == join("/", <<base_topic, Flat(id.id)>>)
           disconnected ==
               IF mmqtt_exception = "is_connected" \/ ~connected THEN <<>>
               ELSE <<Disconnect>>
       IN  IF id.raised # "none"
           THEN /\ raised' = id.raised
                /\ pc' = "dead"
                /\ log' = <<>>
                /\ UNCHANGED <<connected, will, topic>>
           ELSE /\ raised' = "none"
                /\ pc' = "idle"
                /\ topic' = t
                /\ will' = <<WillSet(t \o "/$state", "lost")>>
                /\ log' = disconnected \o <<Connect(5), WillSet(t \o "/$state", "lost")>>
                /\ connected' = TRUE
    /\ UNCHANGED <<nodes, props, enable_broadcast>>

\* HomieDevice.__init__.  The client may raise MMQTTException from is_connected()
\* or from disconnect(); the constructor swallows it.
Construct(device_id, mmqtt_exception) ==
    /\ pc = "new"
    /\ call' = [op |-> "__init__", device_id |-> device_id, is_connected |-> connected,
                 mmqtt_exception |-> mmqtt_exception]
    /\ LET id == validate_id(device_id)
           t == join("/", <<base_topic, Flat(id.id)>>)
           disconnected ==
               IF mmqtt_exception = "is_connected" \/ ~connected THEN <<>>
               ELSE <<Disconnect>>
       IN  IF id.raised # "none"
           THEN /\ raised' = id.raised
                /\ pc' = "dead"
                /\ log' = <<>>
                /\ UNCHANGED <<connected, will, topic>>
           ELSE /\ raised' = "none"
                /\ pc' = "idle"
                /\ topic' = t
                /\ will' = <<WillSet(t \o "/$state", "lost")>>
                /\ log' = disconnected \o <<WillSet(t \o "/$state", "lost"), Connect(5)>>
                /\ connected' = TRUE
    /\ UNCHANGED <<nodes, props, enable_broadcast>>

\* A step of the caller that is no call into the device: it makes no client call
Setup == call' = [op |-> "setup"] /\ log' = <<>> /\ raised' = "none"

\* device.nodes.append(node): the caller attaches its next node
AttachNode ==
    /\ pc = "idle"
    /\ Len(nodes) < Len(NodePool)
    /\ nodes' = Append(nodes, NodePool[Len(nodes) + 1])
    /\ Setup
    /\ UNCHANGED <<pc, connected, will, topic, props, enable_broadcast>>

RECURSIVE Attached(_)
Attached(ns) == IF ns = <<>> THEN 0 ELSE Len(Head(ns).properties) + Attached(Tail(ns))

\* node.properties.append(prop)
AttachProperty(n, p) ==
    /\ pc = "idle"
    /\ n \in DOMAIN nodes
    /\ Attached(nodes) < MaxAttached
    /\ nodes' = [nodes EXCEPT ![n].properties = Append(@, p)]
    /\ Setup
    /\ UNCHANGED <<pc, connected, will, topic, props, enable_broadcast>>

\* prop.callback = method, for a function the caller wrote
AssignCallback(p) ==
    /\ pc = "idle"
    /\ is_settable(props[p])
    /\ ~callable(props[p]._callback)
    /\ props' = [props EXCEPT ![p] = callback_set(@, [t |-> "function", v |-> p]).prop]
    /\ Setup
    /\ UNCHANGED <<pc, connected, will, topic, nodes, enable_broadcast>>

\* device.enable_broadcast = False
DisableBroadcast ==
    /\ pc = "idle"
    /\ enable_broadcast
    /\ enable_broadcast' = FALSE
    /\ Setup
    /\ UNCHANGED <<pc, connected, will, topic, nodes, props>>

\* the connection to the broker is lost, or the client connects again
ConnectionLost ==
    /\ pc = "idle"
    /\ connected
    /\ connected' = FALSE
    /\ UNCHANGED <<pc, will, topic, nodes, props, enable_broadcast, call, log, raised>>

Reconnected ==
    /\ pc = "idle"
    /\ ~connected
    /\ connected' = TRUE
    /\ UNCHANGED <<pc, will, topic, nodes, props, enable_broadcast, call, log, raised>>

\* dir(prop) without the name settable
PropertyAttrOrder_NoSettable ==
    <<"callback", "datatype", "format", "name", "property_id", "unit">>

\* dir(prop) with the name callback coming last
PropertyAttrOrder_CallbackLast ==
    <<"datatype", "format", "name", "property_id", "settable", "unit", "callback">>

\* dir(prop), the names that are neither private nor methods, in dir()'s sorted order
PropertyAttrOrder ==
    <<"callback", "datatype", "format", "name", "property_id", "settable", "unit">>
hasattr(prop, attr) ==
    attr \in {"callback", "datatype", "name", "property_id"} \cup DOMAIN prop.attrs

\* getattr(prop, attr) for a data attribute
getattr(prop, attr) ==
    CASE attr = "datatype" -> PyStr(prop.datatype)
      [] attr = "name" -> PyStr(prop.name)
      [] attr = "property_id" -> PyStr(prop.property_id)
      [] OTHER -> prop.attrs[attr]

\* begin(), lines 296-309: the attribute loop of one property from position i on;
\* [raised, calls].  The value of each attribute is fetched before the name is tested.
RECURSIVE AttributeCalls(_, _, _)
AttributeCalls(prop, prop_topic, i) ==
    IF i > Len(PropertyAttrOrder) THEN [raised |-> "none", calls |-> <<>>]
    ELSE LET attr == PropertyAttrOrder[i]
             rest == AttributeCalls(prop, prop_topic, i + 1)
         IN  IF ~hasattr(prop, attr) THEN rest
             ELSE IF attr = "callback"
                  THEN IF callback_get(prop).raised # "none"
                       THEN [raised |-> callback_get(prop).raised, calls |-> <<>>]
                       ELSE rest
             ELSE IF attr = "property_id" THEN rest
             ELSE LET value == getattr(prop, attr)
                      payload == IF value.t = "str" THEN Flat(value.v)
                                 ELSE Flat(lower(str(value)))
                  IN  [raised |-> rest.raised,
                       calls |-> <<Publish(join("/", <<prop_topic, "$" \o attr>>),
                                           payload, "True", "1")>> \o rest.calls]

\* PropertyCalls with the value published before the handler is registered
PropertyCalls_ValueFirst(node_topic, prop) ==
    LET prop_topic == node_topic \o Flat(prop.property_id)
        attributes == AttributeCalls(prop, prop_topic, 1)
    IN  IF attributes.raised # "none" THEN attributes
        ELSE [raised |-> "none",
              calls |-> attributes.calls
                  \o <<Publish(prop_topic, Flat(str(Value(prop))), "True", "1")>>
                  \o (IF is_settable(prop)
                      THEN <<AddTopicCallback(prop_topic \o "/set", callback_get(prop).ret),
                             Subscribe(prop_topic \o "/set", "1")>>
                      ELSE <<>>)]

\* begin(), lines 295-313: one property of a node
PropertyCalls(node_topic, prop) ==
    LET prop_topic == node_topic \o Flat(prop.property_id)
        attributes == AttributeCalls(prop, prop_topic, 1)
    IN  IF attributes.raised # "none" THEN attributes
        ELSE [raised |-> "none",
              calls |-> attributes.calls
                  \o (IF is_settable(prop)
                      THEN <<AddTopicCallback(prop_topic \o "/set", callback_get(prop).ret),
                             Subscribe(prop_topic \o "/set", "1")>>
                      ELSE <<>>)
                  \o <<Publish(prop_topic, Flat(str(Value(prop))), "True", "1")>>]

\* begin(), line 294: the properties of a node, in order, up to the first exception
RECURSIVE PropertiesCalls(_, _)
PropertiesCalls(node_topic, properties) ==
    IF properties = <<>> THEN [raised |-> "none", calls |-> <<>>]
    ELSE LET first == PropertyCalls(node_topic, props[Head(properties)])
             rest == PropertiesCalls(node_topic, Tail(properties))
         IN  IF first.raised # "none" THEN first
             ELSE [raised |-> rest.raised, calls |-> first.calls \o rest.calls]

PropertyIds(properties) == [i \in DOMAIN properties |-> Flat(props[properties[i]].property_id)]

\* begin(), lines 273-313: one node
NodeCalls(node) ==
    LET node_topic == join("/", <<topic, Flat(node.node_id)>>) \o "/"
        properties == PropertiesCalls(node_topic, node.properties)
    IN  [raised |-> properties.raised,
         calls |-> << Publish(node_topic \o "$name", Flat(node.name), "True", "1"),
                      Publish(node_topic \o "$type", node.type, "True", "1"),
                      Publish(node_topic \o "$properties",
                              join(",", PropertyIds(node.properties)), "True", "1") >>
                   \o properties.calls]

\* begin(), line 272: the nodes, in order, up to the first exception
RECURSIVE NodesCalls(_)
NodesCalls(ns) ==
    IF ns = <<>> THEN [raised |-> "none", calls |-> <<>>]
    ELSE LET first == NodeCalls(Head(ns))
             rest == NodesCalls(Tail(ns))
         IN  IF first.raised # "none" THEN first
             ELSE [raised |-> rest.raised, calls |-> first.calls \o rest.calls]

\* DeviceCalls with $fw/name and $fw/version retained like the other attributes
DeviceCalls_FwRetained ==
    << Publish(topic \o "/$" \o "homie", homie, "True", "1"),
       Publish(topic \o "/$" \o "name", name, "True", "1"),
       Publish(topic \o "/$" \o "extensions", extensions, "True", "1"),
       Publish(topic \o "/$" \o "implementation", implementation, "True", "1") >>
    \o [i \in DOMAIN firmware |->
           Publish(join("/", <<topic, "$fw", firmware[i][1]>>), firmware[i][2],
                   "True", "1")]
    \o << Publish(topic \o "/$nodes", join(",", [i \in DOMAIN nodes |-> Flat(nodes[i].name)]),
                  "True", "1") >>

\* begin(), lines 255-271
DeviceCalls ==
    << Publish(topic \o "/$" \o "homie", homie, "True", "1"),
       Publish(topic \o "/$" \o "name", name, "True", "1"),
       Publish(topic \o "/$" \o "extensions", extensions, "True", "1"),
       Publish(topic \o "/$" \o "implementation", implementation, "True", "1") >>
    \o [i \in DOMAIN firmware |->
           Publish(join("/", <<topic, "$fw", firmware[i][1]>>), firmware[i][2],
                   "default", "default")]
    \o << Publish(topic \o "/$nodes", join(",", [i \in DOMAIN nodes |-> Flat(nodes[i].name)]),
                  "True", "1") >>

\* ReadyCalls with the broadcast subscription made before $state is published
ReadyCalls_SubscribeFirst ==
    (IF enable_broadcast THEN <<Subscribe(base_topic \o "/$broadcast/#", "1")>> ELSE <<>>)
    \o << Publish(topic \o "/$state", "ready", "True", "1") >>

\* ReadyCalls announcing "init" where "ready" is due
ReadyCalls_Init ==
    << Publish(topic \o "/$state", "init", "True", "1") >>
    \o (IF enable_broadcast THEN <<Subscribe(base_topic \o "/$broadcast/#", "1")>> ELSE <<>>)

\* begin(), lines 314-321
ReadyCalls ==
    << Publish(topic \o "/$state", "ready", "True", "1") >>
    \o (IF enable_broadcast THEN <<Subscribe(base_topic \o "/$broadcast/#", "1")>> ELSE <<>>)

\* HomieDevice.begin after its assertion: [raised, calls]
BeginCalls ==
    LET ns == NodesCalls(nodes)
    IN  IF ns.raised # "none"
        THEN [raised |-> ns.raised, calls |-> DeviceCalls \o ns.calls]
        ELSE [raised |-> "none", calls |-> DeviceCalls \o ns.calls \o ReadyCalls]

\* begin() without the assertion on is_connected()
Begin_NoAssert ==
    /\ pc = "idle"
    /\ call' = [op |-> "begin", is_connected |-> connected]
    /\ raised' = BeginCalls.raised /\ log' = BeginCalls.calls
    /\ UNCHANGED <<pc, connected, will, topic, nodes, props, enable_broadcast>>

\* HomieDevice.begin
Begin ==
    /\ pc = "idle"
    /\ call' = [op |-> "begin", is_connected |-> connected]
    /\ IF ~connected
       THEN raised' = "AssertionError" /\ log' = <<>>
       ELSE raised' = BeginCalls.raised /\ log' = BeginCalls.calls
    /\ UNCHANGED <<pc, connected, will, topic, nodes, props, enable_broadcast>>

\* set_state without the membership test
SetState_Unchecked(state) ==
    /\ pc = "idle"
    /\ call' = [op |-> "set_state", state |-> state, is_connected |-> connected]
    /\ raised' = "none"
    /\ log' = IF connected THEN <<Publish(topic \o "/$state", state, "True", "1")>> ELSE <<>>
    /\ UNCHANGED <<pc, connected, will, topic, nodes, props, enable_broadcast>>

\* set_state without the is_connected() test
SetState_AlwaysPublish(state) ==
    /\ pc = "idle"
    /\ call' = [op |-> "set_state", state |-> state, is_connected |-> connected]
    /\ IF state \notin Range(DEVICE_STATES)
       THEN raised' = "ValueError" /\ log' = <<>>
       ELSE /\ raised' = "none"
            /\ log' = <<Publish(topic \o "/$state", state, "True", "1")>>
    /\ UNCHANGED <<pc, connected, will, topic, nodes, props, enable_broadcast>>

\* HomieDevice.set_state
SetState(state) ==
    /\ pc = "idle"
    /\ call' = [op |-> "set_state", state |-> state, is_connected |-> connected]
    /\ IF state \notin Range(DEVICE_STATES)
       THEN raised' = "ValueError" /\ log' = <<>>
       ELSE /\ raised' = "none"
            /\ log' = IF connected
                      THEN <<Publish(topic \o "/$state", state, "True", "1")>>
                      ELSE <<>>
    /\ UNCHANGED <<pc, connected, will, topic, nodes, props, enable_broadcast>>

\* set_property validating the value but committing it only after the publishes
SetProperty_PublishFirst(p, value, multi_node) ==
    /\ pc = "idle"
    /\ value \in Inputs(props[p].cls)
    /\ LET actual_val == set(props[p], value)
       IN  /\ call' = [op |-> "set_property", prop |-> p, value |-> value,
                       multi_node |-> multi_node, old |-> Value(props[p])]
           /\ raised' = actual_val.raised
           /\ pc' = IF actual_val.raised # "none" THEN "idle" ELSE "set_property"
    /\ log' = <<>>
    /\ UNCHANGED <<connected, will, topic, nodes, props, enable_broadcast>>

\* set_property going on to publish after set() raised
SetProperty_IgnoreFailure(p, value, multi_node) ==
    /\ pc = "idle"
    /\ value \in Inputs(props[p].cls)
    /\ LET actual_val == set(props[p], value)
       IN  /\ call' = [op |-> "set_property", prop |-> p, value |-> value,
                       multi_node |-> multi_node, old |-> Value(props[p])]
           /\ props' = [props EXCEPT ![p] = actual_val.prop]
           /\ raised' = actual_val.raised
    /\ pc' = "set_property"
    /\ log' = <<>>
    /\ UNCHANGED <<connected, will, topic, nodes, enable_broadcast>>

\* HomieDevice.set_property, lines 345-346: prop.set(value), then the payload is
\* taken from the stored value.  An exception of set() ends the call.
SetProperty(p, value, multi_node) ==
    /\ pc = "idle"
    /\ value \in Inputs(props[p].cls)
    /\ LET actual_val == set(props[p], value)
       IN  /\ call' = [op |-> "set_property", prop |-> p, value |-> value,
                       multi_node |-> multi_node, old |-> Value(props[p])]
           /\ props' = [props EXCEPT ![p] = actual_val.prop]
           /\ raised' = actual_val.raised
           /\ pc' = IF actual_val.raised # "none" THEN "idle" ELSE "set_property"
    /\ log' = <<>>
    /\ UNCHANGED <<connected, will, topic, nodes, enable_broadcast>>

\* the loop of set_property never breaking
VisitedNodes_All(ns, p, multi_node) == ns

\* the nodes the loop of set_property visits before it stops: all of them, or those
\* up to the first that holds the property
\* prop in node.properties
Holds(node, p) == \E i \in DOMAIN node.properties : node.properties[i] = p

RECURSIVE VisitedNodes(_, _, _)
VisitedNodes(ns, p, multi_node) ==
    IF ns = <<>> THEN <<>>
    ELSE IF Holds(Head(ns), p) /\ ~multi_node
         THEN <<Head(ns)>>
         ELSE <<Head(ns)>> \o VisitedNodes(Tail(ns), p, multi_node)

RECURSIVE PublishTo(_, _, _)
PublishTo(ns, p, pub_val) ==
    IF ns = <<>> THEN <<>>
    ELSE (IF Holds(Head(ns), p)
          THEN <<Publish(join("/", <<topic, Flat(Head(ns).node_id), Flat(props[p].property_id)>>),
                         pub_val, "default", "default")>>
          ELSE <<>>)
         \o PublishTo(Tail(ns), p, pub_val)

\* set_property without the else clause of its loop
SetPropertyPublish_NoElse ==
    /\ pc = "set_property"
    /\ LET p == call.prop
           pub_val == IF Value(props[p]).t = "str" THEN Flat(Value(props[p]).v)
                      ELSE Flat(str(Value(props[p])))
       IN  log' = PublishTo(VisitedNodes(nodes, p, call.multi_node), p, pub_val)
    /\ raised' = "none"
    /\ pc' = "idle"
    /\ UNCHANGED <<connected, will, topic, nodes, props, enable_broadcast, call>>

\* HomieDevice.set_property, lines 346-359: the for loop with its else clause, which
\* runs whenever the loop ends without break
SetPropertyPublish ==
    /\ pc = "set_property"
    /\ LET p == call.prop
           pub_val == IF Value(props[p]).t = "str" THEN Flat(Value(props[p]).v)
                      ELSE Flat(str(Value(props[p])))
           visited == VisitedNodes(nodes, p, call.multi_node)
           broke == visited # <<>> /\ Holds(visited[Len(visited)], p) /\ ~call.multi_node
       IN  /\ log' = PublishTo(visited, p, pub_val)
           /\ raised' = IF broke THEN "none" ELSE "ValueError"
    /\ pc' = "idle"
    /\ UNCHANGED <<connected, will, topic, nodes, props, enable_broadcast, call>>

\* validate_id(_id), called directly, as the first thing the caller does
ValidateId(_id) ==
    /\ pc = "new"
    /\ call.op = "none"
    /\ LET id == validate_id(_id)
       IN  /\ call' = [op |-> "validate_id", _id |-> _id, ret |-> id.id, first |-> _id,
                       again |-> FALSE]
           /\ raised' = id.raised
    /\ UNCHANGED <<pc, connected, will, topic, nodes, props, enable_broadcast, log>>

\* validate_id(validate_id(x)): the id that was returned is validated again
ValidateIdAgain ==
    /\ pc = "new"
    /\ call.op = "validate_id" /\ raised = "none" /\ ~call.again
    /\ LET id == validate_id(call.ret)
       IN  /\ call' = [op |-> "validate_id", _id |-> call.ret, ret |-> id.id,
                       first |-> call.first, again |-> TRUE]
           /\ raised' = id.raised
    /\ UNCHANGED <<pc, connected, will, topic, nodes, props, enable_broadcast, log>>

\* prop.set(value), called on the property directly
PropSet(p, value) ==
    /\ pc = "new"
    /\ value \in SetInputs(props[p].cls)
    /\ LET r == set(props[p], value)
       IN  /\ call' = [op |-> "set", prop |-> p, value |-> value, ret |-> r.ret]
           /\ raised' = r.raised
           /\ props' = [props EXCEPT ![p] = r.prop]
    /\ UNCHANGED <<pc, connected, will, topic, nodes, enable_broadcast, log>>

\* prop.callback, read by the caller; module tells the class the object is of:
\* circuitpython_homie.HomieProperty or circuitpython_homie.properties.HomieProperty
ReadCallback(p, module) ==
    /\ pc = "new"
    /\ LET r == IF module = "properties" THEN properties_callback_get(props[p])
                ELSE callback_get(props[p])
       IN  /\ call' = [op |-> "callback", prop |-> p, module |-> module, ret |-> r.ret]
           /\ raised' = r.raised
    /\ UNCHANGED <<pc, connected, will, topic, nodes, props, enable_broadcast, log>>

\* prop.callback = method
WriteCallback(p, method) ==
    /\ pc = "new"
    /\ LET r == callback_set(props[p], method)
       IN  /\ call' = [op |-> "callback=", prop |-> p, method |-> method,
                       old |-> props[p]._callback]
           /\ raised' = r.raised
           /\ props' = [props EXCEPT ![p] = r.prop]
    /\ UNCHANGED <<pc, connected, will, topic, nodes, enable_broadcast, log>>

Constructed ==
    \E device_id \in DeviceIds, mmqtt_exception \in {"none", "is_connected", "disconnect"} :
        Construct(device_id, mmqtt_exception)

Attach ==
    \/ AttachNode
    \/ \E n \in 1..Len(NodePool), p \in PropIds : AttachProperty(n, p)

\* Registration: the device is built, set up by the caller and registered.
Next ==
    \/ Constructed
    \/ Attach
    \/ \E p \in PropIds : AssignCallback(p)
    \/ DisableBroadcast
    \/ ConnectionLost
    \/ Reconnected
    \/ Begin

Spec == Init /\ [][Next]_vars

\* Life cycle: the device is built, given nodes and registered, its state is set, and
\* the connection comes and goes.
NextState ==
    \/ Constructed
    \/ AttachNode
    \/ DisableBroadcast
    \/ ConnectionLost
    \/ Reconnected
    \/ Begin
    \/ \E state \in StateInputs : SetState(state)

SpecState == Init /\ [][NextState]_vars

\* Property updates: the device is built, properties are attached, and set_property
\* is called on attached and unattached properties.
NextSet ==
    \/ Constructed
    \/ Attach
    \/ ConnectionLost
    \/ Reconnected
    \/ \E p \in PropIds, multi_node \in BOOLEAN, value \in AllInputs :
           SetProperty(p, value, multi_node)
    \/ SetPropertyPublish

SpecSet == Init /\ [][NextSet]_vars

\* The property objects on their own: set() and the callback attribute
InitProp ==
    /\ pc = "new"
    /\ connected = FALSE
    /\ will = <<>>
    /\ topic = ""
    /\ nodes = <<>>
    /\ props \in PropKits
    /\ enable_broadcast = TRUE
    /\ call = [op |-> "none"]
    /\ log = <<>>
    /\ raised = "none"

NextProp ==
    \/ \E p \in PropIds : \E value \in AllSetInputs : PropSet(p, value)
    \/ \E p \in PropIds : \E module \in {"__init__", "properties"} : ReadCallback(p, module)
    \/ \E p \in PropIds : \E method \in Methods : WriteCallback(p, method)

SpecProp == InitProp /\ [][NextProp]_vars

\* validate_id on its own, over the strings of IdInputs
NextId ==
    \/ \E _id \in IdInputs : ValidateId(_id)
    \/ ValidateIdAgain

SpecId == Init /\ [][NextId]_vars

(* ------------------------------------------------------------------ *)
(* Claims                                                              *)
(* ------------------------------------------------------------------ *)

IsPublish(e) == e.call = "publish"
StateTopic == topic \o "/$state"
BroadcastTopic == "homie/$broadcast/#"
NodeTopic(node) == topic \o "/" \o Flat(node.node_id)
PropertyTopic(node, p) == NodeTopic(node) \o "/" \o Flat(props[p].property_id)

\* the topics of the publishes a registration is made of, attributes of properties
\* left out: device attributes, then node by node, then $state
RECURSIVE NodeBlockTopics(_)
NodeBlockTopics(ns) ==
    IF ns = <<>> THEN <<>>
    ELSE << NodeTopic(Head(ns)) \o "/$name", NodeTopic(Head(ns)) \o "/$type",
            NodeTopic(Head(ns)) \o "/$properties" >>
         \o [j \in DOMAIN Head(ns).properties |-> PropertyTopic(Head(ns), Head(ns).properties[j])]
         \o NodeBlockTopics(Tail(ns))
RegistrationTopics ==
    << topic \o "/$homie", topic \o "/$name", topic \o "/$extensions",
       topic \o "/$implementation", topic \o "/$fw/name", topic \o "/$fw/version",
       topic \o "/$nodes" >>
    \o NodeBlockTopics(nodes) \o <<StateTopic>>

InRegistration(e) == IsPublish(e) /\ e.topic \in Range(RegistrationTopics)
TopicsOf(calls) == [k \in DOMAIN calls |-> calls[k].topic]

\* the topics under a property's topic: its attributes and its set topic
UnderProperty(property_topic) ==
    {property_topic \o "/$" \o a : a \in {"datatype", "format", "name", "settable", "unit"}}
        \cup {property_topic \o "/set"}

IsBroadcastSubscribe(e) == e.call = "subscribe" /\ e.topic = BroadcastTopic

\* C1: a begin() on a connected transport that returns normally publishes $homie,
\* $name, $extensions, $implementation, then $fw/name and $fw/version, then $nodes,
\* then node by node in attachment order $name, $type, $properties and the node's
\* properties in attachment order (each with what belongs to it just before its
\* value), then $state = "ready" exactly once as the last publish, and after it, if
\* and only if enable_broadcast, the subscribe to homie/$broadcast/#.
C1_BeginOrder ==
    (call.op = "begin" /\ raised = "none") =>
        /\ TopicsOf(SelectSeq(log, InRegistration)) = RegistrationTopics
        /\ \A k \in DOMAIN log :
               (IsPublish(log[k]) /\ log[k].topic = StateTopic) =>
                   /\ log[k].payload = "ready"
                   /\ \A m \in DOMAIN log : m > k => ~IsPublish(log[m])
        /\ \A k \in DOMAIN log :
               (~InRegistration(log[k]) /\ ~IsBroadcastSubscribe(log[k])) =>
                   \E m \in DOMAIN log :
                       /\ m > k
                       /\ InRegistration(log[m])
                       /\ \A i \in (k + 1)..(m - 1) : ~InRegistration(log[i])
                       /\ log[k].topic \in UnderProperty(log[m].topic)
        /\ \A k \in DOMAIN log : IsBroadcastSubscribe(log[k]) => k = Len(log)
        /\ enable_broadcast <=> (log # <<>> /\ IsBroadcastSubscribe(log[Len(log)]))

\* a registration of two nodes, the first with a settable and another property
C1_Witness ==
    /\ call.op = "begin" /\ raised = "none"
    /\ Len(nodes) = 2
    /\ Len(nodes[1].properties) = 2
    /\ nodes[1].properties[1] # nodes[1].properties[2]
    /\ Len(nodes[2].properties) = 1
    /\ enable_broadcast

\* the places (node, position) where properties are attached
Places == {<<i, j>> \in (DOMAIN nodes) \X (1..MaxAttached + 1) : j \in DOMAIN nodes[i].properties}
PropAt(pl) == nodes[pl[1]].properties[pl[2]]
TopicAt(pl) == PropertyTopic(nodes[pl[1]], PropAt(pl))

IsValuePublish(e, pl) == IsPublish(e) /\ e.topic = TopicAt(pl)
IsHandler(e, pl) ==
    /\ e.call = "add_topic_callback"
    /\ e.topic = TopicAt(pl) \o "/set"
    /\ e.method = props[PropAt(pl)]._callback
IsSetSubscribe(e, pl) == e.call = "subscribe" /\ e.topic = TopicAt(pl) \o "/set"

\* C2: in begin(), each publish of a settable property's value comes after the
\* registration of its handler on <node>/<property>/set and the subscribe to that
\* topic, in that order; for a property that is not settable nothing is registered
\* or subscribed; and when begin() returns every attached property's value has been
\* published once for each place it is attached at.
C2_SettableBeforeValue ==
    call.op = "begin" =>
        \A pl \in Places :
            /\ is_settable(props[PropAt(pl)]) =>
                   \A k \in DOMAIN log : IsValuePublish(log[k], pl) =>
                       \E a, b \in 1..(k - 1) :
                           /\ a < b
                           /\ IsHandler(log[a], pl)
                           /\ IsSetSubscribe(log[b], pl)
                           /\ \A i \in a..(k - 1) : ~IsValuePublish(log[i], pl)
            /\ ~is_settable(props[PropAt(pl)]) =>
                   \A k \in DOMAIN log :
                       log[k].call \in {"add_topic_callback", "subscribe"} =>
                           log[k].topic # TopicAt(pl) \o "/set"
            /\ raised = "none" =>
                   Cardinality({k \in DOMAIN log : IsValuePublish(log[k], pl)})
                       = Cardinality({q \in Places : TopicAt(q) = TopicAt(pl)})

\* a registration that returned, of a node holding a settable property and one
\* that is not settable
C2_Witness ==
    /\ call.op = "begin" /\ raised = "none"
    /\ \E i \in DOMAIN nodes :
           /\ \E j \in DOMAIN nodes[i].properties : is_settable(props[nodes[i].properties[j]])
           /\ \E j \in DOMAIN nodes[i].properties : ~is_settable(props[nodes[i].properties[j]])

\* the nodes holding property p, in attachment order
Holders(p) == SelectSeq(nodes, LAMBDA node : \E j \in DOMAIN node.properties : node.properties[j] = p)
IsAttached(p) == Holders(p) # <<>>

\* the values of Inputs that the validation of their class rejects
Rejected ==
    { PyStr(<<"3", "5", "5", ",", "0", ",", "0">>), PyStr(<<"7", "2", "0", ",", "0", ",", "0">>),
      PyStr(<<"0">>), PyInt(101) }

\* what a property stores for a value it was given: the value itself, but "true" or
\* "false" for a boolean and the ISO 8601 string for a struct_time
StoresFor(stored, given) ==
    \/ SameValue(stored, given)
    \/ /\ given.t = "bool"
       /\ stored = PyStr(IF given.v THEN <<"t", "r", "u", "e">> ELSE <<"f", "a", "l", "s", "e">>)
    \/ /\ given.t = "time"
       /\ stored = PyStr(<<"0", "0", "0", "0", "-", "0", "1", "-", "0", "1", "T",
                          "0", "0", ":", "0", "0", ":", "0", "0">>)
       /\ given.v = <<0, 1, 1, 0, 0, 0>>

\* C3 as claimed: when set_property comes to publish, the property still stores
\* the value it had before the call.
C3_PublishBeforeCommit ==
    pc = "set_property" => SameValue(Value(props[call.prop]), call.old)

\* C3 as amended: set_property first commits the value through the property's set()
\* and publishes afterwards: when it comes to publish nothing has been published and
\* the property already stores the new value, and what is published is the string of
\* the stored value.
C3_CommitBeforePublish ==
    /\ pc = "set_property" =>
           /\ log = <<>>
           /\ StoresFor(Value(props[call.prop]), call.value)
    /\ (call.op = "set_property" /\ pc = "idle") =>
           \A k \in DOMAIN log :
               /\ IsPublish(log[k])
               /\ log[k].payload = Flat(str(Value(props[call.prop])))
               /\ StoresFor(Value(props[call.prop]), call.value)

\* set_property is about to publish a value that differs from the old one, for an
\* attached property
C3_Witness ==
    /\ pc = "set_property"
    /\ IsAttached(call.prop)
    /\ ~SameValue(Value(props[call.prop]), call.old)

\* C4 as claimed: after a set() that failed validation the property stores what it
\* stored before.
C4_FailedSetKeepsValue ==
    (call.op = "set_property" /\ raised = "AssertionError") =>
        SameValue(Value(props[call.prop]), call.old)

\* C5: a set_property with a value that fails validation fails, and publishes nothing,
\* whatever the class of the property and wherever it is attached.
C5_InvalidNotPublished ==
    (call.op = "set_property" /\ call.value \in Rejected) =>
        /\ pc = "idle"
        /\ raised = "AssertionError"
        /\ log = <<>>

\* a rejected value for a property attached to both nodes, with multi_node
C5_Witness ==
    /\ call.op = "set_property" /\ call.value \in Rejected
    /\ Len(Holders(call.prop)) = 2
    /\ call.multi_node

C7_PublishPerHolder ==
    (call.op = "set_property" /\ pc = "idle" /\ call.value \notin Rejected) =>
        LET holders == Holders(call.prop)
            expected == IF call.multi_node \/ holders = <<>> THEN holders ELSE <<Head(holders)>>
        IN  /\ \A k \in DOMAIN log : IsPublish(log[k])
            /\ TopicsOf(log) = [k \in DOMAIN expected |-> PropertyTopic(expected[k], call.prop)]
            /\ \A k, m \in DOMAIN log : log[k].payload = log[m].payload

\* a call without multi_node for a property that both nodes hold
C7_Witness ==
    /\ call.op = "set_property" /\ pc = "idle" /\ call.value \notin Rejected
    /\ ~call.multi_node
    /\ Len(Holders(call.prop)) = 2
    /\ Len(log) = 1

\* C8: set_state with anything but init, ready, disconnected, sleeping, alert or lost
\* fails with a ValueError and publishes nothing, connected or not; every payload
\* published to <topic>/$state is one of the six.
C8_OnlyDeviceStates ==
    /\ (call.op = "set_state"
            /\ call.state \notin {"init", "ready", "disconnected", "sleeping", "alert", "lost"}) =>
           /\ raised = "ValueError"
           /\ log = <<>>
    /\ \A k \in DOMAIN log :
           (IsPublish(log[k]) /\ log[k].topic = StateTopic) =>
               log[k].payload \in {"init", "ready", "disconnected", "sleeping", "alert", "lost"}

\* an invalid state was passed while the client was connected
C8_Witness ==
    /\ call.op = "set_state"
    /\ call.state = "READY"
    /\ call.is_connected

\* C9: set_state with a valid state publishes it once to <topic>/$state, retained and
\* with qos 1, when the client reports connected; when not, it publishes nothing and
\* raises nothing, and nothing is published when the client connects again.
C9_StatePublishedIfConnected ==
    (call.op = "set_state"
         /\ call.state \in {"init", "ready", "disconnected", "sleeping", "alert", "lost"}) =>
        /\ raised = "none"
        /\ log = IF call.is_connected
                 THEN <<[call |-> "publish", topic |-> StateTopic, payload |-> call.state,
                         retain |-> "True", qos |-> "1"]>>
                 ELSE <<>>

\* a state was set while disconnected, and the client has connected again since
C9_Witness ==
    /\ call.op = "set_state" /\ call.state = "sleeping"
    /\ ~call.is_connected
    /\ connected
    /\ log = <<>>

\* C10 as claimed: "lost" is never published to <topic>/$state.
C10_LostNeverPublished ==
    \A k \in DOMAIN log :
        (IsPublish(log[k]) /\ log[k].topic = StateTopic) => log[k].payload # "lost"

\* C10 as amended: "lost" and "init" are published to <topic>/$state only by a
\* set_state that was passed that state, which set_state accepts and publishes like
\* any other; begin() never publishes them; and the constructor arms "lost" as the
\* last will on <topic>/$state.
C10_LostOnlyWhenAsked ==
    /\ \A k \in DOMAIN log :
           (IsPublish(log[k]) /\ log[k].topic = StateTopic /\ log[k].payload \in {"init", "lost"}) =>
               /\ call.op = "set_state"
               /\ call.state = log[k].payload
    /\ (call.op = "set_state" /\ call.state \in {"init", "lost"} /\ call.is_connected) =>
           log # <<>>
    /\ pc = "idle" => will = <<[call |-> "will_set", topic |-> StateTopic, payload |-> "lost"]>>

\* set_state("lost") has published "lost"
C10_Witness ==
    /\ call.op = "set_state" /\ call.state = "lost"
    /\ log # <<>>
    /\ log[1].payload = "lost"

\* C11: a begin() called while the client reports not connected fails on its
\* assertion before it makes any call on the client: nothing is published, no handler
\* is registered, nothing is subscribed.
C11_BeginAssertsConnected ==
    (call.op = "begin" /\ ~call.is_connected) =>
        /\ raised = "AssertionError"
        /\ log = <<>>

\* begin() was called while disconnected, on a device with a settable property that
\* has its callback
C11_Witness ==
    /\ call.op = "begin" /\ ~call.is_connected
    /\ \E pl \in Places :
           is_settable(props[PropAt(pl)]) /\ callable(props[PropAt(pl)]._callback)

\* the topics of $fw/name and $fw/version
FirmwareTopics == {join("/", <<topic, "$fw", firmware[i][1]>>) : i \in DOMAIN firmware}

\* C12: every publish of begin() is retained and has qos 1, except the two to
\* $fw/name and $fw/version, which pass neither; every subscribe of begin() has qos 1.
C12_RetainedQos1 ==
    call.op = "begin" =>
        /\ \A k \in DOMAIN log :
               /\ IsPublish(log[k]) =>
                      IF log[k].topic \in FirmwareTopics
                      THEN log[k].retain = "default" /\ log[k].qos = "default"
                      ELSE log[k].retain = "True" /\ log[k].qos = "1"
               /\ log[k].call = "subscribe" => log[k].qos = "1"
        /\ call.is_connected =>
               \A t \in FirmwareTopics :
                   Cardinality({k \in DOMAIN log : IsPublish(log[k]) /\ log[k].topic = t}) = 1

\* a registration that returned, with a subscribe for a settable property and the
\* subscribe to the broadcast topic
C12_Witness ==
    /\ call.op = "begin" /\ raised = "none"
    /\ \E pl \in Places : \E k \in DOMAIN log : IsSetSubscribe(log[k], pl)
    /\ \E k \in DOMAIN log : IsBroadcastSubscribe(log[k])

\* the device ids of DeviceIds that validate_id rejects: "my dev" and "-"
InvalidDeviceIds == { <<"m", "y", " ", "d", "e", "v">>, <<"-">> }

\* C13: the constructor, given a valid device id, calls disconnect (only if the
\* client reported connected), then will_set(<topic>/$state, "lost"), then connect
\* once with keep_alive=5, also when is_connected() or disconnect() raised
\* MMQTTException; given an invalid device id it fails before any client call.
C13_ConstructorCalls ==
    call.op = "__init__" =>
        IF call.device_id \in InvalidDeviceIds
        THEN raised = "ValueError" /\ log = <<>> /\ will = <<>>
        ELSE /\ raised = "none"
             /\ topic = "homie/my-dev"
             /\ log = (IF call.is_connected /\ call.mmqtt_exception # "is_connected"
                       THEN <<[call |-> "disconnect"]>> ELSE <<>>)
                      \o << [call |-> "will_set", topic |-> "homie/my-dev/$state",
                             payload |-> "lost"],
                            [call |-> "connect", keep_alive |-> 5] >>

\* the client was connected and its disconnect() raised MMQTTException
C13_Witness ==
    /\ call.op = "__init__" /\ raised = "none"
    /\ call.is_connected
    /\ call.mmqtt_exception = "disconnect"

\* C14 as claimed: whenever validate_id returns, what it returns is not empty and
\* consists of lowercase letters, digits and hyphens only; an input that, stripped
\* and lowercased, is empty or has any other character (a trailing newline
\* included) is refused with a ValueError.
C14_OnlyIdCharacters ==
    call.op = "validate_id" =>
        /\ raised \in {"none", "ValueError"}
        /\ raised = "none" =>
               /\ call.ret # <<>>
               /\ \A i \in DOMAIN call.ret : call.ret[i] \in IdChars

\* C15: validate_id is idempotent: an id it returned is accepted when validated
\* again, and returned as it is; an id it returns begins with neither "$" nor "-"
\* and does not end with "-".
C15_Idempotent ==
    /\ (call.op = "validate_id" /\ call.again) =>
           /\ raised = "none"
           /\ call.ret = call._id
    /\ (call.op = "validate_id" /\ raised = "none") =>
           /\ call.ret # <<>>
           /\ Head(call.ret) \notin {"$", "-"}
           /\ call.ret[Len(call.ret)] # "-"

\* an id was validated a second time, the first validation having stripped and
\* lowercased the input
C15_Witness ==
    /\ call.op = "validate_id" /\ call.again
    /\ call.first = <<"$", "Z", "-">>
    /\ call._id = <<"z">>

\* the spellings set() is given for true and for false
TrueExact == { PyBool(TRUE), PyStr(<<"t", "r", "u", "e">>) }
FalseExact == { PyBool(FALSE), PyStr(<<"f", "a", "l", "s", "e">>) }
TrueAnyCase == TrueExact \cup { PyStr(<<"T", "r", "u", "e">>) }
FalseAnyCase == FalseExact \cup { PyStr(<<"F", "A", "L", "S", "E">>) }

\* a set() on a PropertyBool returned b and left the canonical string of b stored
ReturnedBool(b) ==
    /\ raised = "none"
    /\ call.ret = PyBool(b)
    /\ Value(props[call.prop]) =
           PyStr(IF b THEN <<"t", "r", "u", "e">> ELSE <<"f", "a", "l", "s", "e">>)

\* C16 as claimed: PropertyBool.set accepts a bool, "true" and "false", returns the
\* bool and stores "true" or "false"; it rejects every other string, "0" and
\* spellings in another case such as "True" and "FALSE" among them.
C16_CaseSensitive ==
    (call.op = "set" /\ props[call.prop].cls = "PropertyBool") =>
        IF call.value \in TrueExact THEN ReturnedBool(TRUE)
        ELSE IF call.value \in FalseExact THEN ReturnedBool(FALSE)
        ELSE raised = "AssertionError"

\* C16 as amended: PropertyBool.set accepts a bool and the strings "true" and
\* "false" spelled in any case ("True", "FALSE"), returns the bool and stores the
\* canonical "true" or "false"; it rejects every other string, "0" among them.
C16_AnyCase ==
    (call.op = "set" /\ props[call.prop].cls = "PropertyBool") =>
        IF call.value \in TrueAnyCase THEN ReturnedBool(TRUE)
        ELSE IF call.value \in FalseAnyCase THEN ReturnedBool(FALSE)
        ELSE raised = "AssertionError"

\* set("True") returned True on a PropertyBool that stored "false"
C16_Witness ==
    /\ call.op = "set" /\ props[call.prop].cls = "PropertyBool"
    /\ call.value = PyStr(<<"T", "r", "u", "e">>)
    /\ raised = "none"
    /\ call.ret = PyBool(TRUE)

\* The strings of SetInputs that are 3 comma-separated non-negative decimal integers
\* within the ranges of the class, with their components.  The others are out of
\* range ("355,0,0", "0,256,0", "720,0,0", "361,0,0", "0,101,0", "0,0,101"), negative
\* ("-1,0,0", "0,-1,0"), not numeric ("a,0,0", "1,,2", "1 2 3") or of 2 or 4
\* components ("1,2", "1,2,3,4").
Components(cls, value) ==
    CASE cls = "PropertyRGB" /\ value.v = <<"2", "5", "5", ",", "1", "2", "7", ",", "0">> ->
            <<255, 127, 0>>
      [] cls = "PropertyRGB" /\ value.v = <<"0", ",", "0", ",", "2", "5", "5">> -> <<0, 0, 255>>
      [] cls = "PropertyHSV" /\ value.v = <<"2", "5", "5", ",", "8", "5", ",", "0">> ->
            <<255, 85, 0>>
      [] cls = "PropertyHSV"
             /\ value.v = <<"3", "6", "0", ",", "1", "0", "0", ",", "1", "0", "0">> ->
            <<360, 100, 100>>
      [] OTHER -> <<>>

\* C17: set(s) on a colour property returns the 3-tuple of the components of s if s
\* is 3 comma-separated non-negative decimal integers, each within 0..255 for
\* PropertyRGB, within 0..360 for the first and 0..100 for the other two for
\* PropertyHSV; it fails for every other string.
C17_ColorAccepted ==
    (call.op = "set" /\ props[call.prop].cls \in {"PropertyRGB", "PropertyHSV"}) =>
        LET components == Components(props[call.prop].cls, call.value)
        IN  IF components # <<>>
            THEN raised = "none" /\ call.ret = PyTuple(components)
            ELSE raised = "AssertionError" /\ call.ret = None

\* PropertyHSV.set("360,100,100") returned (360, 100, 100)
C17_Witness ==
    /\ call.op = "set" /\ props[call.prop].cls = "PropertyHSV"
    /\ raised = "none"
    /\ call.ret = PyTuple(<<360, 100, 100>>)

\* the range "<min>:<max>" of a PropertyPercent of PropKits: "0:100", "0:60", "50:-1"
FormatRange(prop) ==
    CASE prop.attrs["format"].v = <<"0", ":", "1", "0", "0">> -> <<0, 100>>
      [] prop.attrs["format"].v = <<"0", ":", "6", "0">> -> <<0, 60>>
      [] prop.attrs["format"].v = <<"5", "0", ":", "-", "1">> -> <<50, 0 - 1>>

C19_PercentUnit ==
    (call.op = "begin" /\ raised = "none") =>
        \A pl \in Places :
            props[PropAt(pl)].cls = "PropertyPercent" =>
                /\ "unit" \in DOMAIN props[PropAt(pl)].attrs
                /\ props[PropAt(pl)].attrs["unit"] = PyStr(<<"%">>)
                /\ \E k \in DOMAIN log :
                       /\ IsPublish(log[k])
                       /\ log[k].topic = TopicAt(pl) \o "/$unit"
                       /\ log[k].payload = "%"

\* C20 as claimed: on a property that is not settable, reading the callback fails
\* and assigning one fails; on any property, assigning something that is not
\* callable fails and leaves the stored callback as it was.
C20_NotSettableFails ==
    /\ (call.op \in {"callback", "callback="} /\ ~is_settable(props[call.prop])) =>
           raised # "none"
    /\ (call.op = "callback=" /\ ~callable(call.method)) =>
           /\ raised = "ValueError"
           /\ props[call.prop]._callback = call.old

\* C20 as amended: on a property that is not settable, reading the callback returns
\* None (it raises NotImplementedError only with the HomieProperty of properties.py)
\* and assigning a callable stores it; on a settable property reading returns the
\* stored callable and raises NotImplementedError when none is stored; on any
\* property, assigning something that is not callable fails with a ValueError and
\* leaves the stored callback as it was.
C20_CallbackAccess ==
    /\ (call.op = "callback" /\ call.module = "__init__") =>
           IF ~is_settable(props[call.prop])
           THEN raised = "none" /\ call.ret = None
           ELSE IF props[call.prop]._callback.t = "function"
                THEN raised = "none" /\ call.ret = props[call.prop]._callback
                ELSE raised = "NotImplementedError"
    /\ (call.op = "callback" /\ call.module = "properties") =>
           IF is_settable(props[call.prop]) /\ props[call.prop]._callback.t = "function"
           THEN raised = "none" /\ call.ret = props[call.prop]._callback
           ELSE raised = "NotImplementedError"
    /\ call.op = "callback=" =>
           IF call.method.t = "function"
           THEN raised = "none" /\ props[call.prop]._callback = call.method
           ELSE raised = "ValueError" /\ props[call.prop]._callback = call.old

\* a property that is not settable had a function assigned as its callback, and
\* then refused a string
C20_Witness ==
    /\ call.op = "callback="
    /\ ~is_settable(props[call.prop])
    /\ call.old.t = "function"
    /\ call.method = PyStr(<<"n", "o">>)
    /\ raised = "ValueError"

\* the publishes of a registration to the attribute attr of the property at place pl
AttributePublishes(pl, attr) ==
    SelectSeq(log, LAMBDA e : IsPublish(e) /\ e.topic = TopicAt(pl) \o "/$" \o attr)

\* C21 as claimed: a begin() that returns has published $datatype and $settable for
\* every property of every node, $settable being "false" for a property constructed
\* without a settable argument.
C21_SettableAlwaysPublished ==
    (call.op = "begin" /\ raised = "none") =>
        \A pl \in Places :
            /\ AttributePublishes(pl, "datatype") # <<>>
            /\ AttributePublishes(pl, "settable") # <<>>
            /\ "settable" \notin DOMAIN props[PropAt(pl)].attrs =>
                   \A k \in DOMAIN AttributePublishes(pl, "settable") :
                       AttributePublishes(pl, "settable")[k].payload = "false"

\* C21 as amended: a begin() that returns has published $datatype for every property
\* of every node; it has published $settable, as "true" or "false", for the
\* properties that have the attribute settable, and no $settable at all for a
\* property constructed without that argument (by a class that has no default for it).
C21_SettableIfPresent ==
    (call.op = "begin" /\ raised = "none") =>
        \A pl \in Places :
            /\ AttributePublishes(pl, "datatype") # <<>>
            /\ \A k \in DOMAIN AttributePublishes(pl, "datatype") :
                   AttributePublishes(pl, "datatype")[k].payload = Flat(props[PropAt(pl)].datatype)
            /\ IF "settable" \in DOMAIN props[PropAt(pl)].attrs
               THEN /\ AttributePublishes(pl, "settable") # <<>>
                    /\ \A k \in DOMAIN AttributePublishes(pl, "settable") :
                           AttributePublishes(pl, "settable")[k].payload =
                               (IF props[PropAt(pl)].attrs["settable"].v THEN "true" ELSE "false")
               ELSE AttributePublishes(pl, "settable") = <<>>

\* a registration that returned, of a property constructed with settable=False and
\* of one that is settable by the default of its class
C21_Witness ==
    /\ call.op = "begin" /\ raised = "none"
    /\ \E pl \in Places :
           /\ "settable" \in DOMAIN props[PropAt(pl)].attrs
           /\ ~props[PropAt(pl)].attrs["settable"].v
    /\ \E pl \in Places : is_settable(props[PropAt(pl)])

\* the places of the settable properties that have no callable callback, and the
\* first of them in the order begin() walks the nodes and their properties
UnhandledPlaces ==
    {pl \in Places : is_settable(props[PropAt(pl)]) /\ props[PropAt(pl)]._callback.t # "function"}
FirstUnhandled ==
    CHOOSE pl \in UnhandledPlaces :
        \A q \in UnhandledPlaces : pl[1] < q[1] \/ (pl[1] = q[1] /\ pl[2] <= q[2])

\* the topics of the registration up to the property at place pl, that one left out
TopicsBefore(pl) ==
    SubSeq(RegistrationTopics, 1, 7)
        \o NodeBlockTopics(SubSeq(nodes, 1, pl[1] - 1))
        \o NodeBlockTopics(<<[nodes[pl[1]] EXCEPT !.properties = SubSeq(@, 1, pl[2] - 1)]>>)

\* C22: when a settable property attached to the device has no callable callback, a
\* begin() on a connected client fails with NotImplementedError, having published
\* neither an attribute nor the value of that property, and neither $state nor
\* subscribed to the broadcast topic, while what it published before (device
\* attributes, $nodes, the nodes and properties that come earlier) stays published;
\* and when begin() returns, every settable property has its handler registered and
\* its /set topic subscribed.
C22_CallbackRequired ==
    (call.op = "begin" /\ call.is_connected) =>
        IF UnhandledPlaces # {}
        THEN /\ raised = "NotImplementedError"
             /\ \A pl \in UnhandledPlaces : \A k \in DOMAIN log :
                    log[k].topic \notin UnderProperty(TopicAt(pl)) \cup {TopicAt(pl)}
             /\ \A k \in DOMAIN log :
                    /\ IsPublish(log[k])
                    /\ log[k].topic # StateTopic
             /\ TopicsOf(SelectSeq(log, InRegistration)) = TopicsBefore(FirstUnhandled)
        ELSE /\ raised = "none"
             /\ \A pl \in Places :
                    is_settable(props[PropAt(pl)]) =>
                        /\ \E k \in DOMAIN log : IsHandler(log[k], pl)
                        /\ \E k \in DOMAIN log : IsSetSubscribe(log[k], pl)

\* begin() failed at a property of the second node, after registering a property
\* of the first
C22_Witness ==
    /\ call.op = "begin" /\ call.is_connected
    /\ raised = "NotImplementedError"
    /\ FirstUnhandled[1] = 2
    /\ nodes[1].properties # <<>>
    /\ Len(log) > 10

\* C23 as claimed: every publish of the value of a property to <node>/<property>,
\* by begin() and by set_property(), is retained and has qos 1.
C23_ValueRetained ==
    call.op \in {"begin", "set_property"} =>
        \A pl \in Places : \A k \in DOMAIN log :
            IsValuePublish(log[k], pl) => log[k].retain = "True" /\ log[k].qos = "1"

\* C24 as claimed: in begin(), the entries of the $nodes payload are the topic
\* segments of the nodes, and the entries of each $properties payload are the topic
\* segments of the properties of that node.
C24_ListedIdsAreSegments ==
    (call.op = "begin" /\ call.is_connected) =>
        \A k \in DOMAIN log :
            /\ (IsPublish(log[k]) /\ log[k].topic = topic \o "/$nodes") =>
                   log[k].payload = join(",", [i \in DOMAIN nodes |-> Flat(nodes[i].node_id)])
            /\ \A i \in DOMAIN nodes :
                   (IsPublish(log[k]) /\ log[k].topic = NodeTopic(nodes[i]) \o "/$properties") =>
                       log[k].payload =
                           join(",", [j \in DOMAIN nodes[i].properties |->
                                          Flat(props[nodes[i].properties[j]].property_id)])

\* C25 as claimed: a set_property() that fails with a ValueError because no node
\* holds the property leaves the property storing what it stored before the call.
C25_UnassociatedKeepsValue ==
    (call.op = "set_property" /\ pc = "idle" /\ raised = "ValueError"
         /\ ~IsAttached(call.prop)) =>
        SameValue(Value(props[call.prop]), call.old)

====
